---------------------------- MODULE Spec2Model ----------------------------
(***************************************************************************)
(* The concurrent slide-rendering pipeline of SlideAgent:                  *)
(*   - PagePool                (src/src/utils/puppeteer_helper.js)         *)
(*   - waitForSlideReady       (src/src/utils/puppeteer_helper.js)         *)
(*   - processWithConcurrency  (src/unnamed/part_004)                      *)
(*   - generatePDFFromSlides   (src/unnamed/part_004)                      *)
(*                                                                         *)
(* One step of the model is one continuation of the Node.js event loop:    *)
(* the code that runs between two awaits.  A call into the browser (goto,  *)
(* waitForFunction, addStyleTag, pdf) resolves or throws, chosen           *)
(* nondeterministically.  browser.newPage() and page.setViewport() are     *)
(* taken to succeed, as the code itself takes them (no handler anywhere).  *)
(* The reaction of a promise that runs in the same turn of the event loop  *)
(* as the settlement that triggers it is part of the settling step.        *)
(***************************************************************************)
EXTENDS Integers, Sequences, FiniteSets, TLC

\* ---------------------------------------------------------------- bounds
MaxSlides == 3        \* slide numbers found in the directory are in 1..MaxSlides
MaxPoolSize == 2      \* `size` given to new PagePool(browser, size)
MaxLimit == 3         \* `limit` given to processWithConcurrency
MaxReplacements == 1  \* failed resets (each creates one replacement page)

SlideNums == 1..MaxSlides
PageIds == 1..(MaxPoolSize + MaxReplacements)

NoPage == 0      \* no page held
Blank == 0       \* a page showing about:blank
NoBuffer == -1   \* an empty slot of new Array(n) (undefined)
NoExit == -1     \* the process has not exited

VARIABLES
    \* ---- generatePDFFromSlides
    dir,           \* slide numbers n of the slide_<n>.html files in slidesDir
    slideFiles,    \* the filtered, sorted list
    phase,         \* position of generatePDFFromSlides
    pdfBuffers,    \* new Array(slideFiles.length)
    completed,     \* let completed = 0
    progressSlide, \* the slide last shown by progressBar.update
    merged,        \* pages added to mergedPdf so far
    mergeIdx,      \* position of the merge loop
    output,        \* content of the file at outputPath
    written,       \* fs.writeFileSync(outputPath, ...) has run
    exitCode,      \* process exit status
    browserOpen,   \* the browser is launched and not closed
    \* ---- PagePool
    size, pages, available, initialized, createdCount,
    newPageCalls,  \* number of browser.newPage() calls so far (names the pages)
    pageDoc,       \* what each page shows: Blank or a slide number
    pageProbe,     \* how the readiness wait on the shown document ended
    openPages,     \* pages created by browser.newPage() and not closed
    \* ---- processWithConcurrency
    limit, nextItem, executing, pwc, raceState,
    \* ---- the iteratorFn invocations (one per slide)
    tState,        \* position of each invocation
    page,          \* the page each invocation holds
    threw,         \* its try block ended with an exception, rethrown after finally
    fatal,         \* a task-fatal error occurred in it
    \* ---- what the run is given
    lazyLoad,      \* the argument of PagePool.init(lazyLoad)
    isDirectory,   \* generatePDF line 27: the input path is a directory
    \* ---- observation
    dispatches,    \* runs of the for loop between two awaits that started an item
    \* ---- the scan of the directory, on file names
    listing,       \* fs.readdirSync(slidesDir): file names in directory order
    sortedNames,   \* the listing after .filter(...).sort(...)
    \* ---- the inlining of a slide (slideagent_mcp/utils/pdf_generator.js)
    content,       \* cssContent or htmlContent: the references of a file
    \* ---- the readiness predicate of waitForSlideReady
    probe,         \* the document it is evaluated in, and its value
    \* ---- the round-robin pipeline (src/slides/pdf_generator.js)
    pageIndex,     \* let pageIndex = 0: the page getNextPage() returns next
    \* ---- callers of a pool that nobody initialised
    calls          \* each concurrent init() or acquire() call and where it stands

poolVars == <<size, pages, available, initialized, createdCount, newPageCalls,
              pageDoc, pageProbe, openPages>>
schedVars == <<limit, nextItem, executing, pwc, raceState>>
taskVars == <<tState, page, threw, fatal>>
mainVars == <<dir, slideFiles, phase, pdfBuffers, completed, progressSlide, merged,
              mergeIdx, output, written, exitCode, browserOpen>>
inputVars == <<lazyLoad, isDirectory, listing, sortedNames, content, probe,
               pageIndex, calls>>
envVars == <<inputVars, dispatches>>
vars == <<mainVars, poolVars, schedVars, taskVars, envVars>>

N == Len(slideFiles)
Tasks == 1..N

\* ------------------------------------------------------------- helpers
RECURSIVE SortByNum(_)
\* .sort((a, b) => numA - numB) over the matching files
SortByNum(S) ==
    IF S = {} THEN <<>>
    ELSE LET m == CHOOSE x \in S : \A y \in S : x <= y
         IN <<m>> \o SortByNum(S \ {m})

\* Array.prototype.pop on a non-empty array: the value and the rest
Last(s) == s[Len(s)]
Front(s) == SubSeq(s, 1, Len(s) - 1)

\* executing.splice(executing.indexOf(e), 1)
Splice(s, x) == SelectSeq(s, LAMBDA y : y # x)

Range(s) == {s[k] : k \in 1..Len(s)}

\* no file is being inlined
NoContent == [kind |-> "none", baseDir |-> <<>>, file |-> <<>>, text |-> <<>>,
              fixed |-> FALSE]

\* the predicate is not being evaluated
NoProbe == [doc |-> <<>>, evaluated |-> FALSE, result |-> FALSE]

\* the state when generatePDFFromSlides is called on a directory holding the
\* slides `d`, with a pool of `s` pages, the limit `l` and init(lazy); `dom`
\* are the indices an invocation can have
Start(d, dom, s, l, lazy) ==
    /\ dir = d
    /\ slideFiles = <<>>
    /\ phase = "scan"
    /\ pdfBuffers = <<>>
    /\ completed = 0
    /\ progressSlide = 0
    /\ merged = <<>>
    /\ mergeIdx = 1
    /\ output = <<>>
    /\ written = FALSE
    /\ exitCode = NoExit
    /\ browserOpen = FALSE
    /\ size = s
    /\ pages = <<>>
    /\ available = <<>>
    /\ initialized = FALSE
    /\ createdCount = 0
    /\ newPageCalls = 0
    /\ pageDoc = [p \in PageIds \cup (1..s) |-> Blank]
    /\ pageProbe = [p \in PageIds \cup (1..s) |-> "none"]
    /\ openPages = {}
    /\ limit = l
    /\ nextItem = 1
    /\ executing = <<>>
    /\ pwc = "idle"
    /\ raceState = "none"
    /\ tState = [i \in dom |-> "Queued"]
    /\ page = [i \in dom |-> NoPage]
    /\ threw = [i \in dom |-> FALSE]
    /\ fatal = [i \in dom |-> FALSE]
    /\ lazyLoad = lazy
    /\ dispatches = 0
    /\ sortedNames = <<>>
    /\ pageIndex = 0
    /\ calls = <<>>

\* generatePDFFromSlides calls pagePool.init() (line 66): eager
Init ==
    \E d \in SUBSET SlideNums, s \in 1..MaxPoolSize, l \in 1..MaxLimit :
        Start(d, SlideNums, s, l, FALSE) /\ listing = <<>> /\ isDirectory = TRUE /\ content = NoContent /\ probe = NoProbe

\* a run whose error handlers print the error and let the process end by
\* itself
ExitStatusAlwaysZero(failed) == 0

\* the status the process ends with: 1 where an error is handled (console.error,
\* then process.exit(1): lines 49-50, 140-141, 263-264), 0 when main returns
ExitStatus(failed) == IF failed THEN 1 ELSE 0

\* process.exit(code): nothing runs afterwards, `finally` blocks included
Exit(code) ==
    /\ phase' = "exited"
    /\ exitCode' = code

\* ------------------------------------------------ generatePDFFromSlides
\* a generatePDF that takes every input for a directory
HandlerAlwaysDirectory(isDir) == "directory"

\* generatePDF lines 27-35: a directory goes to generatePDFFromSlides, any
\* other input to generatePDFFromSingleFile
Handler(isDir) == IF isDir THEN "directory" ELSE "single"

\* a scan without the test of line 48
NoSlidesNever(files) == FALSE

\* line 48: if (slideFiles.length === 0)
NoSlides(files) == Len(files) = 0

\* lines 40-64: scan, filter, sort, empty check, launchBrowser()
Scan ==
    /\ phase = "scan"
    /\ Handler(isDirectory) = "directory"
    /\ UNCHANGED envVars
    /\ slideFiles' = SortByNum(dir)
    /\ IF NoSlides(slideFiles')
       THEN Exit(ExitStatus(TRUE))
       ELSE phase' = "launch" /\ UNCHANGED exitCode
    /\ UNCHANGED <<dir, pdfBuffers, completed, progressSlide, merged, mergeIdx, output,
                   written, browserOpen>>
    /\ UNCHANGED <<poolVars, schedVars, taskVars>>

\* lines 64-66: the browser is up, new PagePool(browser, size), pagePool.init()
\* runs to its first await (PagePool.init lines 72-73)
Launch ==
    /\ phase = "launch"
    /\ UNCHANGED envVars
    /\ browserOpen' = TRUE
    /\ initialized' = TRUE
    /\ phase' = "init"
    /\ UNCHANGED <<dir, slideFiles, pdfBuffers, completed, progressSlide, merged,
                   mergeIdx, output, written, exitCode>>
    /\ UNCHANGED <<size, pages, available, createdCount, newPageCalls, pageDoc,
                   pageProbe, openPages>>
    /\ UNCHANGED <<schedVars, taskVars>>

\* a caller that does not await pagePool.init()
InitReturnedAtOnce == TRUE

\* PagePool.init lines 75-86: init returns once the eager loop has created
\* `size` pages; with lazyLoad it returns at once, having created none
InitReturned == lazyLoad \/ createdCount = size

\* PagePool.init lines 77-83: one turn of the eager creation loop
InitCreatePage ==
    /\ phase = "init"
    /\ UNCHANGED envVars
    /\ ~lazyLoad
    /\ createdCount < size
    /\ LET p == newPageCalls + 1 IN
         /\ newPageCalls' = p
         /\ openPages' = openPages \cup {p}
         /\ pages' = Append(pages, p)
         /\ available' = Append(available, p)
         /\ createdCount' = createdCount + 1
    /\ UNCHANGED <<size, initialized, pageDoc, pageProbe>>
    /\ UNCHANGED <<mainVars, schedVars, taskVars>>

\* ------------------------------------------------ processWithConcurrency
\* a loop without the test of line 18: every item is started at once
MustWaitNever(exec, lim) == FALSE

\* an off-by-one in the test of line 18
MustWaitOffByOne(exec, lim) == Len(exec) > lim

\* line 18: if (executing.length >= limit)
MustWait(exec, lim) == Len(exec) >= lim

\* line 19: Promise.race(executing) at the moment it is called: a promise of
\* `executing` that is already rejected settles the race at once (a fulfilled
\* one has spliced itself out before)
RaceAtCall(exec, ts) ==
    IF \E k \in 1..Len(exec) : ts[exec[k]] = "Failed" THEN "rejected" ELSE "pending"

\* line 22 without the join: the array of promises is returned as it is
PromiseAllNoWait(ts, n) ==
    IF \E i \in 1..n : ts[i] = "Failed" THEN "rejected" ELSE "fulfilled"

\* line 22 with Promise.allSettled(ret)
PromiseAllSettled(ts, n) ==
    IF \A i \in 1..n : ts[i] \in {"Done", "Failed"} THEN "fulfilled" ELSE "pending"

\* line 22: Promise.all(ret) rejects with the first rejection and fulfils
\* when every promise did
PromiseAll(ts, n) ==
    IF \E i \in 1..n : ts[i] = "Failed" THEN "rejected"
    ELSE IF \A i \in 1..n : ts[i] = "Done" THEN "fulfilled"
    ELSE "pending"

\* a loop that steps over every other entry
NextEntrySkipping(i) == i + 2

\* line 13: for (const [i, item] of items.entries()): the index that follows i
NextEntry(i) == i + 1

RECURSIVE RunLoop(_, _, _, _, _)
\* lines 13-22: the for loop from item `next` on, up to its next await: each
\* turn creates p (iteratorFn(item, i) is started and runs up to its call of
\* pagePool.acquire()) and pushes e; the loop awaits Promise.race(executing)
\* once `limit` is reached, or ends with return Promise.all(ret)
RunLoop(next, exec, ts, lim, n) ==
    IF next > n
    THEN [pwc |-> "all", nextItem |-> next, executing |-> exec, tState |-> ts,
          raceState |-> "none"]
    ELSE LET exec2 == Append(exec, next)
             ts2 == [ts EXCEPT ![next] = "Acquiring"]
         IN IF MustWait(exec2, lim)
            THEN [pwc |-> "race", nextItem |-> NextEntry(next), executing |-> exec2,
                  tState |-> ts2, raceState |-> RaceAtCall(exec2, ts2)]
            ELSE RunLoop(NextEntry(next), exec2, ts2, lim, n)

\* the scheduler and the invocations after the loop ran to its next await
LoopRuns(next, exec, ts) ==
    LET r == RunLoop(next, exec, ts, limit, N) IN
    /\ pwc' = r.pwc
    /\ nextItem' = r.nextItem
    /\ executing' = r.executing
    /\ tState' = r.tState
    /\ raceState' = r.raceState
    /\ dispatches' = IF r.nextItem > next THEN dispatches + 1 ELSE dispatches

\* generatePDFFromSlides lines 78-85: init() has returned; pdfBuffers = new
\* Array(n); processWithConcurrency is called and runs to its first await
StartRender ==
    /\ phase = "init"
    /\ UNCHANGED inputVars
    /\ InitReturned
    /\ phase' = "render"
    /\ pdfBuffers' = [k \in 1..N |-> NoBuffer]
    /\ LoopRuns(1, <<>>, tState)
    /\ UNCHANGED <<dir, slideFiles, completed, progressSlide, merged, mergeIdx, output,
                   written, exitCode, browserOpen>>
    /\ UNCHANGED limit
    /\ UNCHANGED <<page, threw, fatal>>
    /\ UNCHANGED poolVars

\* line 19: the await of Promise.race resumes after a fulfilment: the loop
\* goes on to its next await
RaceResume ==
    /\ phase = "render"
    /\ UNCHANGED inputVars
    /\ pwc = "race"
    /\ raceState = "fulfilled"
    /\ LoopRuns(nextItem, executing, tState)
    /\ UNCHANGED limit
    /\ UNCHANGED <<page, threw, fatal>>
    /\ UNCHANGED <<mainVars, poolVars>>

\* line 19 and generatePDFFromSlides lines 139-141: the await of Promise.race
\* resumes after a rejection, which is thrown out of processWithConcurrency
\* and caught by the caller: console.error, process.exit(1)
RaceRejects ==
    /\ phase = "render"
    /\ UNCHANGED envVars
    /\ pwc = "race"
    /\ raceState = "rejected"
    /\ pwc' = "rejected"
    /\ Exit(ExitStatus(TRUE))
    /\ UNCHANGED <<limit, nextItem, executing, raceState>>
    /\ UNCHANGED <<dir, slideFiles, pdfBuffers, completed, progressSlide, merged,
                   mergeIdx, output, written, browserOpen>>
    /\ UNCHANGED <<poolVars, taskVars>>

\* line 22 and generatePDFFromSlides lines 85, 117-121, 139-141: Promise.all(ret)
\* settles and with it processWithConcurrency; the caller goes on to the merge,
\* or catches the rejection: console.error, process.exit(1)
AllSettle ==
    /\ phase = "render"
    /\ UNCHANGED envVars
    /\ pwc = "all"
    /\ PromiseAll(tState, N) # "pending"
    /\ pwc' = PromiseAll(tState, N)
    /\ IF PromiseAll(tState, N) = "rejected"
       THEN Exit(ExitStatus(TRUE))
       ELSE phase' = "merge" /\ UNCHANGED exitCode
    /\ UNCHANGED <<limit, nextItem, executing, raceState>>
    /\ UNCHANGED <<dir, slideFiles, pdfBuffers, completed, progressSlide, merged,
                   mergeIdx, output, written, browserOpen>>
    /\ UNCHANGED <<poolVars, taskVars>>

\* line 19 with Promise.all(executing): the loop goes on when the whole batch
\* has completed
RaceOutcomeOfAll(out, exec) ==
    IF out = "Failed" THEN "rejected"
    ELSE IF exec = <<>> THEN "fulfilled" ELSE "pending"

\* line 19: a pending Promise.race(executing) settles as the first promise
\* of `executing` to settle (`out` is how the invocation ended, `exec` is
\* `executing` after its reaction)
RaceOutcome(out, exec) == IF out = "Done" THEN "fulfilled" ELSE "rejected"

\* iteratorFn lines 112-114: after the finally block the exception of the try
\* block, if any, is rethrown
Rethrows(t) == t

\* lines 14-16: the promise p of invocation i settles (rejected when the
\* invocation throws) and e = p.then(() => executing.splice(...)) reacts: on
\* fulfilment e splices itself out of `executing`, on rejection e rejects and
\* stays in it.  A pending Promise.race settles with the first e to settle.
SettleAs(i, out) ==
    /\ tState' = [tState EXCEPT ![i] = out]
    /\ executing' = IF out = "Done" THEN Splice(executing, i) ELSE executing
    /\ raceState' = IF pwc = "race" /\ raceState = "pending"
                    THEN RaceOutcome(out, IF out = "Done" THEN Splice(executing, i)
                                          ELSE executing)
                    ELSE raceState
    /\ UNCHANGED <<limit, nextItem, pwc>>

\* the settlement of the promise of an invocation that has left its finally
\* block
SettleTask(i) == SettleAs(i, IF Rethrows(threw[i]) THEN "Failed" ELSE "Done")

\* ------------------------------------------------------------ PagePool
\* an acquire without the polling loop of lines 92-94
MustPollNever(avail) == FALSE

\* acquire line 92: while (this.available.length === 0)
MustPoll(avail) == Len(avail) = 0

\* acquire line 96: the value of this.available.pop(), undefined for an
\* empty array
Popped(avail) == IF avail = <<>> THEN NoPage ELSE Last(avail)

\* line 96 reading the last page without removing it
AfterPopPeek(avail) == avail

\* acquire line 96: this.available after pop()
AfterPop(avail) == Front(avail)

\* release without line 110
AfterPushDropped(avail, p) == avail

\* release line 110: this.available.push(page)
AfterPush(avail, p) == Append(avail, p)

\* acquire lines 92-96, one turn of the polling loop that finds a page: the
\* length test and the pop run in the same continuation.  A turn that finds
\* none sleeps 50 ms and tests again, which changes nothing.
Acquire(i) ==
    /\ phase = "render"
    /\ UNCHANGED envVars
    /\ i \in Tasks
    /\ tState[i] = "Acquiring"
    /\ ~MustPoll(available)
    /\ page' = [page EXCEPT ![i] = Popped(available)]
    /\ available' = AfterPop(available)
    /\ tState' = [tState EXCEPT ![i] = "Navigating"]
    /\ UNCHANGED <<threw, fatal>>
    /\ UNCHANGED <<size, pages, initialized, createdCount, newPageCalls, pageDoc,
                   pageProbe, openPages>>
    /\ UNCHANGED <<mainVars, schedVars>>

\* ---------------------------------------------------------- the iterator
\* the iterator without its finally block: a throw settles the invocation
OnThrowNoFinally == "Failed"

\* iteratorFn lines 88-114: where control goes when a call inside the try
\* block throws: the finally block, which releases the page
OnThrow == "Releasing"

\* page.goto inside the try block of the readiness wait: its throw is caught
AfterGotoSwallowed(ok) == "ProbingReadiness"

\* waitForSlideReady lines 129-132: where control goes after page.goto
AfterGoto(ok) == IF ok THEN "ProbingReadiness" ELSE OnThrow

\* waitForSlideReady lines 135-159: the outcome of page.waitForFunction, with
\* its 5000 ms timeout
ProbeOutcome(ready) == IF ready THEN "ready" ELSE "timedOut"

\* the readiness wait without its try block: the timeout is thrown on
AfterProbeThrows(ready) == IF ready THEN "Normalizing" ELSE OnThrow

\* waitForSlideReady lines 160-166: a throw of waitForFunction is caught with
\* a console.warn, then comes the 100 ms delay and the function returns
AfterProbe(ready) == "Normalizing"

\* line 109 storing in completion order: the first empty slot is filled
StoreBufferInOrderOfCompletion(bufs, i, b) ==
    LET k == CHOOSE k \in 1..Len(bufs) :
                 bufs[k] = NoBuffer /\ \A j \in 1..(k - 1) : bufs[j] # NoBuffer
    IN [bufs EXCEPT ![k] = b]

\* line 109 as pdfBuffers.push(pdfBuffer)
StoreBufferPushed(bufs, i, b) == Append(bufs, b)

\* line 109: pdfBuffers[i] = pdfBuffer
StoreBuffer(bufs, i, b) == [bufs EXCEPT ![i] = b]

\* waitForSlideReady lines 129-132: page.goto(slideUrl, {timeout: 30000})
\* resolves, or throws (hard timeout)
Navigate(i) ==
    /\ phase = "render"
    /\ UNCHANGED envVars
    /\ i \in Tasks
    /\ tState[i] = "Navigating"
    /\ \E ok \in BOOLEAN :
         /\ tState' = [tState EXCEPT ![i] = AfterGoto(ok)]
         /\ threw' = [threw EXCEPT ![i] = AfterGoto(ok) = OnThrow]
         /\ fatal' = [fatal EXCEPT ![i] = fatal[i] \/ ~ok]
         /\ pageDoc' = IF ok THEN [pageDoc EXCEPT ![page[i]] = slideFiles[i]]
                       ELSE pageDoc
    /\ UNCHANGED page
    /\ UNCHANGED <<size, pages, available, initialized, createdCount, newPageCalls,
                   pageProbe, openPages>>
    /\ UNCHANGED <<mainVars, schedVars>>

\* waitForSlideReady lines 135-166: page.waitForFunction(..., {timeout: 5000})
\* resolves, or throws and is caught with a warning; then the 100 ms delay
Probe(i) ==
    /\ phase = "render"
    /\ UNCHANGED envVars
    /\ i \in Tasks
    /\ tState[i] = "ProbingReadiness"
    /\ \E ready \in BOOLEAN :
         /\ pageProbe' = [pageProbe EXCEPT ![page[i]] = ProbeOutcome(ready)]
         /\ tState' = [tState EXCEPT ![i] = AfterProbe(ready)]
         /\ threw' = [threw EXCEPT ![i] = AfterProbe(ready) = OnThrow]
    /\ UNCHANGED <<page, fatal>>
    /\ UNCHANGED <<size, pages, available, initialized, createdCount, newPageCalls,
                   pageDoc, openPages>>
    /\ UNCHANGED <<mainVars, schedVars>>

\* an iterator that releases the page right after the style injection
AfterInjectNoCapture(ok) == IF ok THEN "Releasing" ELSE OnThrow

\* lines 92-94: where control goes after injectCommonCSS(page): on to
\* page.pdf, or to the finally block when it threw
AfterInject(ok) == IF ok THEN "Capturing" ELSE OnThrow

\* line 92: injectCommonCSS(page) resolves or throws
Normalize(i) ==
    /\ phase = "render"
    /\ UNCHANGED envVars
    /\ i \in Tasks
    /\ tState[i] = "Normalizing"
    /\ \E ok \in BOOLEAN :
         /\ tState' = [tState EXCEPT ![i] = AfterInject(ok)]
         /\ threw' = [threw EXCEPT ![i] = ~ok]
         /\ fatal' = [fatal EXCEPT ![i] = fatal[i] \/ ~ok]
    /\ UNCHANGED page
    /\ UNCHANGED <<mainVars, poolVars, schedVars>>

\* lines 94-111: page.pdf(...) resolves with the capture of what the page
\* shows, which is stored, counted and shown on the progress bar; or it throws
Capture(i) ==
    /\ phase = "render"
    /\ UNCHANGED envVars
    /\ i \in Tasks
    /\ tState[i] = "Capturing"
    /\ \/ /\ tState' = [tState EXCEPT ![i] = "Releasing"]
          /\ pdfBuffers' = StoreBuffer(pdfBuffers, i, pageDoc[page[i]])
          /\ completed' = completed + 1
          /\ progressSlide' = slideFiles[i]
          /\ UNCHANGED <<threw, fatal>>
       \/ /\ tState' = [tState EXCEPT ![i] = OnThrow]
          /\ threw' = [threw EXCEPT ![i] = TRUE]
          /\ fatal' = [fatal EXCEPT ![i] = TRUE]
          /\ UNCHANGED <<pdfBuffers, completed, progressSlide>>
    /\ UNCHANGED page
    /\ UNCHANGED <<dir, slideFiles, phase, merged, mergeIdx, output, written,
                   exitCode, browserOpen>>
    /\ UNCHANGED <<poolVars, schedVars>>

\* release without its reset navigation: the page keeps what it shows
AfterResetKept(doc) == doc

\* PagePool.release line 102: what the page shows after
\* page.goto('about:blank')
AfterReset(doc) == Blank

\* release without its catch block: the error of the reset is thrown out of
\* the finally block of the invocation
ResetFaultSurfaced(t) == TRUE

\* PagePool.release lines 103-108: the catch block swallows the error of the
\* reset navigation: what the invocation is to rethrow stays as it was
ResetFault(t) == t

\* failed resets so far: replacements created or being created
ResetFailures ==
    (newPageCalls - createdCount) + Cardinality({j \in Tasks : tState[j] = "Replacing"})

\* lines 112-114 and PagePool.release lines 101-110: the reset navigation to
\* about:blank resolves and the page is pushed back, or it throws (the page
\* is gone) and release goes on to create a replacement
Release(i) ==
    /\ phase = "render"
    /\ UNCHANGED envVars
    /\ i \in Tasks
    /\ tState[i] = "Releasing"
    /\ pageDoc' = [pageDoc EXCEPT ![page[i]] = AfterReset(pageDoc[page[i]])]
    /\ pageProbe' = [pageProbe EXCEPT ![page[i]] = "none"]
    /\ \/ /\ available' = AfterPush(available, page[i])
          /\ page' = [page EXCEPT ![i] = NoPage]
          /\ SettleTask(i)
          /\ UNCHANGED <<openPages, threw>>
       \/ /\ ResetFailures < MaxReplacements
          /\ openPages' = openPages \ {page[i]}
          /\ tState' = [tState EXCEPT ![i] = "Replacing"]
          /\ threw' = [threw EXCEPT ![i] = ResetFault(threw[i])]
          /\ UNCHANGED <<available, page>>
          /\ UNCHANGED schedVars
    /\ UNCHANGED fatal
    /\ UNCHANGED <<size, pages, initialized, createdCount, newPageCalls>>
    /\ UNCHANGED mainVars

\* PagePool.release lines 105-110: the replacement page is created and pushed
Replace(i) ==
    /\ phase = "render"
    /\ UNCHANGED envVars
    /\ i \in Tasks
    /\ tState[i] = "Replacing"
    /\ LET q == newPageCalls + 1 IN
         /\ newPageCalls' = q
         /\ openPages' = openPages \cup {q}
         /\ available' = AfterPush(available, q)
    /\ page' = [page EXCEPT ![i] = NoPage]
    /\ SettleTask(i)
    /\ UNCHANGED <<threw, fatal>>
    /\ UNCHANGED <<size, pages, initialized, createdCount, pageDoc, pageProbe>>
    /\ UNCHANGED mainVars

\* ------------------------------------- generatePDFFromSlides, after render
\* a merge loop whose body is in a try block that skips the buffer
LoadThrowsNever(ok, buf) == FALSE

\* lines 124-125: PDFLib.load or copyPages throws: the slot is empty
\* (undefined) or its bytes cannot be read (~ok)
LoadThrows(ok, buf) == ~ok \/ buf = NoBuffer

\* lines 124-126: the pages copied from a buffer, one for a capture that
\* could be read
PagesOf(ok, buf) == IF ok /\ buf # NoBuffer THEN <<buf>> ELSE <<>>

\* lines 123-127: one turn of the merge loop; a throw of PDFLib.load or
\* copyPages is caught at lines 139-141: console.error, process.exit(1)
MergeStep ==
    /\ phase = "merge"
    /\ UNCHANGED envVars
    /\ mergeIdx <= Len(pdfBuffers)
    /\ \E ok \in BOOLEAN :
         IF LoadThrows(ok, pdfBuffers[mergeIdx])
         THEN Exit(ExitStatus(TRUE)) /\ UNCHANGED <<merged, mergeIdx>>
         ELSE /\ merged' = merged \o PagesOf(ok, pdfBuffers[mergeIdx])
              /\ mergeIdx' = mergeIdx + 1
              /\ UNCHANGED <<phase, exitCode>>
    /\ UNCHANGED <<dir, slideFiles, pdfBuffers, completed, progressSlide, output,
                   written, browserOpen>>
    /\ UNCHANGED <<poolVars, schedVars, taskVars>>

\* lines 129-130: mergedPdf.save(), fs.writeFileSync(outputPath, bytes)
WriteOutput ==
    /\ phase = "merge"
    /\ UNCHANGED envVars
    /\ mergeIdx > Len(pdfBuffers)
    /\ output' = merged
    /\ written' = TRUE
    /\ phase' = "destroy"
    /\ UNCHANGED <<dir, slideFiles, pdfBuffers, completed, progressSlide, merged,
                   mergeIdx, exitCode, browserOpen>>
    /\ UNCHANGED <<poolVars, schedVars, taskVars>>

\* line 143 and PagePool.destroy lines 114-123: every page of this.pages is
\* closed (a page already closed is tolerated), the lists are emptied
Destroy ==
    /\ phase = "destroy"
    /\ UNCHANGED envVars
    /\ openPages' = openPages \ Range(pages)
    /\ pages' = <<>>
    /\ available' = <<>>
    /\ initialized' = FALSE
    /\ phase' = "close"
    /\ UNCHANGED <<size, createdCount, newPageCalls, pageDoc, pageProbe>>
    /\ UNCHANGED <<dir, slideFiles, pdfBuffers, completed, progressSlide, merged,
                   mergeIdx, output, written, exitCode, browserOpen>>
    /\ UNCHANGED <<schedVars, taskVars>>

\* line 144: browser.close() closes every page left; the function returns
\* and the process ends with status 0
CloseBrowser ==
    /\ phase = "close"
    /\ UNCHANGED envVars
    /\ browserOpen' = FALSE
    /\ openPages' = {}
    /\ Exit(ExitStatus(FALSE))
    /\ UNCHANGED <<dir, slideFiles, pdfBuffers, completed, progressSlide, merged,
                   mergeIdx, output, written>>
    /\ UNCHANGED <<size, pages, available, initialized, createdCount, newPageCalls,
                   pageDoc, pageProbe>>
    /\ UNCHANGED <<schedVars, taskVars>>

\* one continuation of the run, the invocations having their indices in `dom`
Step(dom) ==
    \/ Scan
    \/ Launch
    \/ InitCreatePage
    \/ StartRender
    \/ RaceResume
    \/ RaceRejects
    \/ AllSettle
    \/ \E i \in dom : Acquire(i)
    \/ \E i \in dom : Navigate(i)
    \/ \E i \in dom : Probe(i)
    \/ \E i \in dom : Normalize(i)
    \/ \E i \in dom : Capture(i)
    \/ \E i \in dom : Release(i)
    \/ \E i \in dom : Replace(i)
    \/ MergeStep
    \/ WriteOutput
    \/ Destroy
    \/ CloseBrowser

Next == Step(SlideNums)

Spec == Init /\ [][Next]_vars

\* The run of 5 slides numbered 1 to 5 on a pool of 2 pages with the limit 2.
ScenarioSlides == 5
ScenarioPool == 2
ScenarioLimit == 2

ScenarioInit ==
    /\ Start(1..ScenarioSlides, 1..ScenarioSlides, ScenarioPool, ScenarioLimit, FALSE)
    /\ listing = <<>> /\ isDirectory = TRUE /\ content = NoContent /\ probe = NoProbe

ScenarioNext == Step(1..ScenarioSlides)

ScenarioSpec == ScenarioInit /\ [][ScenarioNext]_vars

\* part_004 lines 257-260: the SIGINT handler, which can run between any two
\* continuations: console.log, process.exit(0)
Interrupt ==
    /\ phase # "exited"
    /\ Exit(0)
    /\ UNCHANGED <<dir, slideFiles, pdfBuffers, completed, progressSlide, merged,
                   mergeIdx, output, written, browserOpen>>
    /\ UNCHANGED <<poolVars, schedVars, taskVars, envVars>>

SigintNext == Next \/ Interrupt

\* a directory run that can be interrupted at any moment
SigintSpec == Init /\ [][SigintNext]_vars

\* The event loop runs every continuation that is ready, and every call into
\* the browser returns or times out: no step that stays possible is put off
\* for ever.
FairSpec == Spec /\ WF_vars(Next)

\* The pipeline over a pool initialised either way: PagePool.init(lazyLoad)
\* takes its argument from the caller.
PoolInit ==
    \E d \in SUBSET SlideNums, s \in 1..MaxPoolSize, l \in 1..MaxLimit,
       lazy \in BOOLEAN :
        Start(d, SlideNums, s, l, lazy) /\ listing = <<>> /\ isDirectory = TRUE /\ content = NoContent /\ probe = NoProbe

PoolSpec == PoolInit /\ [][Next]_vars

PoolFairSpec == PoolSpec /\ WF_vars(Next)

\* ------------------------------------------- generatePDFFromSingleFile
\* In a run on a single file, `dir` holds the document given, or nothing when
\* no file is found at the path; the one page is the first the browser creates.
SingleDoc == CHOOSE n \in dir : TRUE

\* what a single-file step leaves alone: the pool, the scheduler, the
\* invocations and the directory listing
SingleFrame ==
    /\ UNCHANGED <<dir, slideFiles, pdfBuffers, completed, progressSlide, merged,
                   mergeIdx>>
    /\ UNCHANGED <<size, pages, available, initialized, createdCount, pageProbe>>
    /\ UNCHANGED <<schedVars, taskVars, envVars>>

\* a generatePDFFromSingleFile without the test of line 150
NotFoundNever(d) == FALSE

\* generatePDFFromSingleFile line 150: if (!fs.existsSync(htmlFilePath))
NotFound(d) == d = {}

\* generatePDF lines 27-34 and generatePDFFromSingleFile lines 150-165: the
\* file is not found (console.error, process.exit(1)), or launchBrowser()
SingleCheck ==
    /\ phase = "scan"
    /\ Handler(isDirectory) = "single"
    /\ IF NotFound(dir)
       THEN Exit(ExitStatus(TRUE)) /\ UNCHANGED browserOpen
       ELSE phase' = "singlePage" /\ browserOpen' = TRUE /\ UNCHANGED exitCode
    /\ UNCHANGED <<output, written, newPageCalls, pageDoc, openPages>>
    /\ SingleFrame

\* lines 168-176: browser.newPage(), page.setViewport(1536 x 864)
SingleNewPage ==
    /\ phase = "singlePage"
    /\ newPageCalls' = newPageCalls + 1
    /\ openPages' = openPages \cup {newPageCalls + 1}
    /\ phase' = "singleGoto"
    /\ UNCHANGED <<output, written, exitCode, browserOpen, pageDoc>>
    /\ SingleFrame

\* lines 179-186: page.goto(fileUrl, {timeout: 30000}) and the 2000 ms delay,
\* or its throw, caught at lines 216-218: console.error, process.exit(1)
SingleGoto ==
    /\ phase = "singleGoto"
    /\ \E ok \in BOOLEAN :
         IF ok
         THEN /\ pageDoc' = [pageDoc EXCEPT ![newPageCalls] = SingleDoc]
              /\ phase' = "singleCss"
              /\ UNCHANGED exitCode
         ELSE Exit(ExitStatus(TRUE)) /\ UNCHANGED pageDoc
    /\ UNCHANGED <<output, written, browserOpen, newPageCalls, openPages>>
    /\ SingleFrame

\* line 189: injectCommonCSS(page), or its throw (lines 216-218)
SingleNormalize ==
    /\ phase = "singleCss"
    /\ \E ok \in BOOLEAN :
         IF ok
         THEN phase' = "singlePdf" /\ UNCHANGED exitCode
         ELSE Exit(ExitStatus(TRUE))
    /\ UNCHANGED <<output, written, browserOpen, newPageCalls, pageDoc, openPages>>
    /\ SingleFrame

\* lines 192-214: page.pdf({path: outputPath, ...}) captures what the page
\* shows and writes it to outputPath, or throws (lines 216-218)
SinglePdf ==
    /\ phase = "singlePdf"
    /\ \/ /\ output' = <<pageDoc[newPageCalls]>>
          /\ written' = TRUE
          /\ phase' = "singleClose"
          /\ UNCHANGED exitCode
       \/ /\ Exit(ExitStatus(TRUE))
          /\ UNCHANGED <<output, written>>
    /\ UNCHANGED <<browserOpen, newPageCalls, pageDoc, openPages>>
    /\ SingleFrame

\* lines 219-221: finally browser.close(); the function returns and the
\* process ends with status 0
SingleClose ==
    /\ phase = "singleClose"
    /\ browserOpen' = FALSE
    /\ openPages' = {}
    /\ Exit(ExitStatus(FALSE))
    /\ UNCHANGED <<output, written, newPageCalls, pageDoc>>
    /\ SingleFrame

SingleStep ==
    \/ SingleCheck
    \/ SingleNewPage
    \/ SingleGoto
    \/ SingleNormalize
    \/ SinglePdf
    \/ SingleClose

\* generatePDF (lines 25-36) on a directory of slides or on one file
GenerateInit ==
    \/ Init
    \/ \E d \in {{}} \cup {{n} : n \in SlideNums} :
          /\ Start(d, SlideNums, 1, 1, FALSE)
          /\ listing = <<>>
          /\ isDirectory = FALSE
          /\ content = NoContent /\ probe = NoProbe

GenerateNext == Next \/ SingleStep

GenerateSpec == GenerateInit /\ [][GenerateNext]_vars

\* ----------------- the rewriting of references (slideagent_mcp/utils/pdf_generator.js)
\* A reference is the sequence of the tokens of its text: path segments,
\* the separators "/" and "//", and a leading scheme with its colon.
MaxRefs == 2

Refs ==
    { <<"a.png">>,
      <<"img", "/", "a.png">>,
      <<"..", "/", "a.png">>,
      <<"http-logo.png">>,
      <<"/", "deck", "/", "a.png">>,
      <<"data:", "image/png;base64,AAAA">>,
      <<"https:", "//", "cdn", "/", "a.png">>,
      <<"file:", "//", "/", "deck", "/", "a.png">>,
      <<"ftp:", "//", "cdn", "/", "a.png">> }

\* directories of the referencing file, as segments under the root
BaseDirs == { <<"deck">>, <<"deck", "slides">> }

\* the tokens of Refs whose text begins with `prefix`
TokensStarting(prefix) ==
    CASE prefix = "data:" -> {"data:"}
      [] prefix = "http" -> {"https:", "http-logo.png"}
      [] prefix = "file:" -> {"file:"}

\* String.prototype.startsWith
StartsWith(ref, prefix) == ref # <<>> /\ ref[1] \in TokensStarting(prefix)

\* the segments of a path without "." and with every ".." applied
RECURSIVE Normalized(_)
Normalized(segs) ==
    IF segs = <<>> THEN <<>>
    ELSE LET before == Normalized(Front(segs))
             seg == Last(segs)
         IN IF seg = "." THEN before
            ELSE IF seg = ".." THEN (IF before = <<>> THEN <<>> ELSE Front(before))
            ELSE Append(before, seg)

RECURSIVE Joined(_)
\* the text of the absolute path made of the segments
Joined(segs) ==
    IF segs = <<>> THEN <<>> ELSE Joined(Front(segs)) \o <<"/", Last(segs)>>

\* path.resolve(base, url): url is taken from the root when it begins with a
\* separator, from base otherwise
PathResolve(base, url) ==
    LET segs == SelectSeq(url, LAMBDA t : t \notin {"/", "//"})
        from == IF url[1] \in {"/", "//"} THEN <<>> ELSE base
    IN Joined(Normalized(from \o segs))

\* lines 247 and 279: the references the callback returns as they are
Skipped(url) ==
    StartsWith(url, "data:") \/ StartsWith(url, "http") \/ StartsWith(url, "file:")

\* lines 245-253 and 277-286: the callback of String.prototype.replace, on one
\* reference
Rewritten(base, url) ==
    IF Skipped(url) THEN url ELSE <<"file://">> \o PathResolve(base, url)

\* lines 245-253: cssContent.replace(/url\(...\)/g, ...) on every reference
FixCssUrls ==
    /\ content.kind = "css"
    /\ ~content.fixed
    /\ content' = [content EXCEPT
                     !.text = [k \in 1..Len(content.text) |->
                                  Rewritten(content.baseDir, content.text[k])],
                     !.fixed = TRUE]
    /\ UNCHANGED <<mainVars, poolVars, schedVars, taskVars, lazyLoad, isDirectory,
                   listing, sortedNames, dispatches, probe, pageIndex, calls>>

\* lines 277-286: htmlContent.replace(/src="([^"]+)"/g, ...) on every reference
FixSrcPaths ==
    /\ content.kind = "html"
    /\ ~content.fixed
    /\ content' = [content EXCEPT
                     !.text = [k \in 1..Len(content.text) |->
                                  Rewritten(content.baseDir, content.text[k])],
                     !.fixed = TRUE]
    /\ UNCHANGED <<mainVars, poolVars, schedVars, taskVars, lazyLoad, isDirectory,
                   listing, sortedNames, dispatches, probe, pageIndex, calls>>

\* a stylesheet or a slide as read from its file (lines 223 and 241)
Contents ==
    { [kind |-> kd, baseDir |-> bd, file |-> f, text |-> f, fixed |-> FALSE] :
        kd \in {"css", "html"}, bd \in BaseDirs,
        f \in UNION { [1..n -> Refs] : n \in 1..MaxRefs } }

RewriteInit ==
    /\ Start({}, SlideNums, 1, 1, FALSE)
    /\ listing = <<>>
    /\ isDirectory = TRUE
    /\ content \in Contents
    /\ probe = NoProbe

RewriteNext == FixCssUrls \/ FixSrcPaths

RewriteSpec == RewriteInit /\ [][RewriteNext]_vars

\* ------------------------------ the readiness predicate (waitForSlideReady)
\* What the predicate reads of a document: document.readyState, the
\* `complete` flag of each img, the fonts API (absent, or its status), whether
\* the selector '.slide, section, div[class*="slide"]' finds an element, and
\* whether document.body is there.
MaxImages == 2

Documents ==
    [readyState : {"loading", "interactive", "complete"},
     images : UNION { [1..n -> BOOLEAN] : n \in 0..MaxImages },
     fonts : {"absent", "loading", "loaded"},
     slide : BOOLEAN,
     body : BOOLEAN]

\* lines 150-155 without the fallback: no container, not ready
ReadyCheckNoFallback(d) ==
    IF d.readyState # "complete" THEN FALSE
    ELSE IF \E k \in 1..Len(d.images) : ~d.images[k] THEN FALSE
    ELSE IF d.fonts = "loading" THEN FALSE
    ELSE d.slide

\* lines 136-159: the function given to page.waitForFunction, return by
\* return
ReadyCheck(d) ==
    IF d.readyState # "complete" THEN FALSE
    ELSE IF \E k \in 1..Len(d.images) : ~d.images[k] THEN FALSE
    ELSE IF d.fonts # "absent" /\ d.fonts = "loading" THEN FALSE
    ELSE IF ~d.slide THEN d.body
    ELSE TRUE

\* one evaluation of the predicate in the page
EvaluateReady ==
    /\ ~probe.evaluated
    /\ probe.doc # <<>>
    /\ probe' = [probe EXCEPT !.evaluated = TRUE, !.result = ReadyCheck(probe.doc)]
    /\ UNCHANGED <<mainVars, poolVars, schedVars, taskVars, lazyLoad, isDirectory,
                   listing, sortedNames, dispatches, content, pageIndex, calls>>

ProbeInit ==
    /\ Start({}, SlideNums, 1, 1, FALSE)
    /\ listing = <<>>
    /\ isDirectory = TRUE
    /\ content = NoContent
    /\ \E d \in Documents : probe = [doc |-> d, evaluated |-> FALSE, result |-> FALSE]

ProbeNext == EvaluateReady

ProbeSpec == ProbeInit /\ [][ProbeNext]_vars

\* --------------------- the round-robin pipeline (src/slides/pdf_generator.js)
\* generatePDFFromSlides of src/slides/pdf_generator.js has no PagePool: it
\* creates POOL_SIZE pages and hands them out in turn, without waiting for a
\* page to be free.  Its scan, its scheduler and its merge are those above.
RRPoolSize == 4   \* const POOL_SIZE = 4
RRLimit == 8      \* const CONCURRENCY_LIMIT = 8
RRMaxSlides == 6

RECURSIVE RRLoop(_, _, _, _, _, _)
\* processWithConcurrency lines 525-534, from item `next` on up to its next
\* await: the iterator of each item started takes getNextPage() (lines
\* 601-605) and calls page.goto
RRLoop(next, exec, ts, pg, idx, n) ==
    IF next > n
    THEN [pwc |-> "all", nextItem |-> next, executing |-> exec, tState |-> ts,
          page |-> pg, pageIndex |-> idx, raceState |-> "none"]
    ELSE LET exec2 == Append(exec, next)
             ts2 == [ts EXCEPT ![next] = "Navigating"]
             pg2 == [pg EXCEPT ![next] = idx + 1]   \* pages[pageIndex]
             idx2 == (idx + 1) % RRPoolSize
         IN IF MustWait(exec2, limit)
            THEN [pwc |-> "race", nextItem |-> next + 1, executing |-> exec2,
                  tState |-> ts2, page |-> pg2, pageIndex |-> idx2,
                  raceState |-> RaceAtCall(exec2, ts2)]
            ELSE RRLoop(next + 1, exec2, ts2, pg2, idx2, n)

RRLoopRuns(next) ==
    LET r == RRLoop(next, executing, tState, page, pageIndex, N) IN
    /\ pwc' = r.pwc
    /\ nextItem' = r.nextItem
    /\ executing' = r.executing
    /\ tState' = r.tState
    /\ page' = r.page
    /\ pageIndex' = r.pageIndex
    /\ raceState' = r.raceState

RRFrame == UNCHANGED <<lazyLoad, isDirectory, listing, sortedNames, content, probe,
                       calls,
                       dispatches, size, available, initialized, createdCount,
                       pageProbe, limit, dir, slideFiles, merged, mergeIdx, output,
                       written>>

\* lines 587-613: puppeteer.launch, the POOL_SIZE pages, pdfBuffers, and
\* processWithConcurrency up to its first await
RRLaunch ==
    /\ phase = "launch"
    /\ browserOpen' = TRUE
    /\ newPageCalls' = RRPoolSize
    /\ openPages' = 1..RRPoolSize
    /\ pages' = [k \in 1..RRPoolSize |-> k]
    /\ pdfBuffers' = [k \in 1..N |-> NoBuffer]
    /\ phase' = "render"
    /\ RRLoopRuns(1)
    /\ UNCHANGED <<completed, progressSlide, exitCode, pageDoc, threw, fatal>>
    /\ RRFrame

\* lines 621-627 and 648-651: page.goto resolves, or throws: the catch block
\* prints and rethrows, the promise of the invocation rejects
RRNavigate(i) ==
    /\ phase = "render"
    /\ i \in Tasks
    /\ tState[i] = "Navigating"
    /\ \/ /\ pageDoc' = [pageDoc EXCEPT ![page[i]] = slideFiles[i]]
          /\ tState' = [tState EXCEPT ![i] = "Capturing"]
          /\ UNCHANGED <<threw, fatal, executing, raceState>>
       \/ /\ threw' = [threw EXCEPT ![i] = TRUE]
          /\ fatal' = [fatal EXCEPT ![i] = TRUE]
          /\ SettleAs(i, "Failed")
          /\ UNCHANGED pageDoc
    /\ UNCHANGED <<phase, pdfBuffers, completed, progressSlide, exitCode, browserOpen,
                   pages, newPageCalls, openPages, page, pageIndex, nextItem, pwc>>
    /\ RRFrame

\* lines 627-651: after waitForTimeout(300), page.pdf captures what the page
\* shows and the buffer is stored; or it throws
RRCapture(i) ==
    /\ phase = "render"
    /\ i \in Tasks
    /\ tState[i] = "Capturing"
    /\ \/ /\ pdfBuffers' = StoreBuffer(pdfBuffers, i, pageDoc[page[i]])
          /\ completed' = completed + 1
          /\ progressSlide' = slideFiles[i]
          /\ SettleAs(i, "Done")
          /\ UNCHANGED <<threw, fatal>>
       \/ /\ threw' = [threw EXCEPT ![i] = TRUE]
          /\ fatal' = [fatal EXCEPT ![i] = TRUE]
          /\ SettleAs(i, "Failed")
          /\ UNCHANGED <<pdfBuffers, completed, progressSlide>>
    /\ UNCHANGED <<phase, exitCode, browserOpen, pages, newPageCalls, pageDoc,
                   openPages, page, pageIndex, nextItem, pwc>>
    /\ RRFrame

\* lines 654-659: processWithConcurrency has fulfilled; every page is closed
RRClosePages ==
    /\ phase = "merge"
    /\ openPages # {}
    /\ openPages' = {}
    /\ UNCHANGED <<phase, pdfBuffers, completed, progressSlide, exitCode, browserOpen,
                   pages, newPageCalls, pageDoc, page, pageIndex, threw, fatal,
                   tState, executing, raceState, nextItem, pwc>>
    /\ RRFrame

\* lines 661-672 after the pages are closed: the merge loop and the write
RRMerge ==
    /\ openPages = {}
    /\ MergeStep \/ WriteOutput

\* lines 680-682: finally browser.close(); the process ends with status 0
RRFinish ==
    /\ phase = "destroy"
    /\ browserOpen' = FALSE
    /\ Exit(ExitStatus(FALSE))
    /\ UNCHANGED <<pdfBuffers, completed, progressSlide, pages, newPageCalls, pageDoc,
                   openPages, page, pageIndex, threw, fatal, tState, executing,
                   raceState, nextItem, pwc>>
    /\ RRFrame

\* a directory holding the slides 1..n, run with the constants of the file;
\* with fewer than CONCURRENCY_LIMIT slides the loop of the scheduler starts
\* them all and never waits in Promise.race
RRInit ==
    \E n \in 0..RRMaxSlides :
        /\ Start(1..n, 1..RRMaxSlides, RRPoolSize, RRLimit, FALSE)
        /\ listing = <<>>
        /\ isDirectory = TRUE
        /\ content = NoContent
        /\ probe = NoProbe

RRNext ==
    \/ Scan
    \/ RRLaunch
    \/ AllSettle
    \/ \E i \in 1..RRMaxSlides : RRNavigate(i)
    \/ \E i \in 1..RRMaxSlides : RRCapture(i)
    \/ RRClosePages
    \/ RRMerge
    \/ RRFinish

RRSpec == RRInit /\ [][RRNext]_vars

\* ---------------------------------------------------------------- claims
\* invocations of iteratorFn started and not yet settled
InFlight == {i \in Tasks : tState[i] \notin {"Queued", "Done", "Failed"}}

\* pages returned by acquire and not yet put back (or replaced) by release
CheckedOut == Cardinality({i \in Tasks : page[i] # NoPage})

\* init() has created its `size` pages and destroy() has not run
PoolReady == initialized /\ createdCount = size

\* slot i of pdfBuffers, NoBuffer while the array does not exist
BufferOf(i) == IF i \in DOMAIN pdfBuffers THEN pdfBuffers[i] ELSE NoBuffer

\* C1: a successful directory run writes a document of exactly N pages, page
\* k being the capture of slideFiles[k], whatever the order of completion.
C1_PagesInInputOrder == written => output = slideFiles

\* a run of at least two slides was written although the last slide of the
\* list was not the last one captured
C1_Witness ==
    /\ written
    /\ N >= 2
    /\ output = slideFiles
    /\ progressSlide # slideFiles[N]

\* C2: processWithConcurrency never has more than `limit` invocations of
\* iteratorFn started and not yet settled.
C2_AtMostLimitInFlight == Cardinality(InFlight) <= limit

\* the limit is reached while items are still queued
C2_Witness ==
    /\ limit >= 2
    /\ Cardinality(InFlight) = limit
    /\ nextItem <= N

\* C3 as stated: in every reachable state at most `size` pages are checked
\* out and available.length + checkedOut = size.
C3_AccountingAtAllTimes ==
    /\ CheckedOut <= size
    /\ Len(available) + CheckedOut = size

\* C3 amended: at most `size` pages are checked out in every state, and
\* available.length + checkedOut = size from the end of init() until destroy().
C3_AccountingWhileReady ==
    /\ CheckedOut <= size
    /\ PoolReady => Len(available) + CheckedOut = size

\* a replacement page sits in `available` while another page is checked out
C3_Witness ==
    /\ PoolReady
    /\ \E k \in 1..Len(available) : available[k] > size
    /\ CheckedOut >= 1

\* C4: a page returned by acquire is held by one invocation only until its
\* release puts it back: no two invocations hold the same page, and no held
\* page is in `available`, which holds no page twice.
C4_ExclusiveOwnership ==
    /\ \A i, j \in Tasks : (i # j /\ page[i] # NoPage) => page[i] # page[j]
    /\ \A i \in Tasks : page[i] # NoPage => page[i] \notin Range(available)
    /\ Cardinality(Range(available)) = Len(available)

\* every page is held and two invocations wait in acquire at once
C4_Witness ==
    /\ available = <<>>
    /\ CheckedOut = size
    /\ Cardinality({i \in Tasks : tState[i] = "Acquiring"}) >= 2

\* C5: no execution has both a task-fatal error and a write of the output.
C5_NoOutputAfterFailure == written => \A i \in Tasks : ~fatal[i]

\* a navigation failed while another slide was captured, and the process
\* exited with status 1 without writing
C5_Witness ==
    /\ phase = "exited"
    /\ exitCode = 1
    /\ ~written
    /\ \E i, j \in Tasks : fatal[i] /\ tState[i] = "Failed" /\ BufferOf(j) # NoBuffer

\* C6: an invocation that has settled, Done or Failed, holds no page: the
\* page it acquired was put back, or replaced, before it settled.
C6_ReleasedBeforeSettle ==
    \A i \in Tasks : tState[i] \in {"Done", "Failed"} =>
        /\ page[i] = NoPage
        /\ PoolReady => Len(available) + CheckedOut = size

\* one invocation ended Failed and one ended Done, and every page is back
C6_Witness ==
    /\ \E i, j \in Tasks : tState[i] = "Failed" /\ tState[j] = "Done"
    /\ CheckedOut = 0
    /\ Len(available) = size

\* C7: when the merge loop runs, every slot of pdfBuffers is written and no
\* invocation is in flight.
C7_MergeAfterAllBuffers ==
    phase = "merge" =>
        /\ Len(pdfBuffers) = N
        /\ \A i \in Tasks : pdfBuffers[i] # NoBuffer /\ tState[i] = "Done"

\* the merge loop is about to read the first of at least two buffers
C7_Witness == phase = "merge" /\ mergeIdx = 1 /\ N >= 2

\* C8: pdfBuffers keeps its length N; a step that changes it is the capture
\* of one invocation i, which writes the empty slot i and no other slot.
C8_OwnSlotOnly ==
    /\ [](phase \in {"render", "merge", "destroy", "close"} => Len(pdfBuffers) = N)
    /\ [][pdfBuffers # <<>> /\ pdfBuffers' # pdfBuffers =>
            /\ Len(pdfBuffers') = Len(pdfBuffers)
            /\ \E i \in Tasks :
                 /\ tState[i] = "Capturing"
                 /\ tState'[i] = "Releasing"
                 /\ pdfBuffers[i] = NoBuffer
                 /\ pdfBuffers'[i] # NoBuffer
                 /\ \A k \in Tasks \ {i} : pdfBuffers'[k] = pdfBuffers[k]]_vars

\* a later slot is written while an earlier one is still empty
C8_Witness ==
    \E i, j \in Tasks : i < j /\ BufferOf(i) = NoBuffer /\ BufferOf(j) # NoBuffer

\* the readiness wait of invocation i has timed out
SoftTimedOut(i) ==
    /\ i \in Tasks
    /\ page[i] # NoPage
    /\ pageProbe[page[i]] = "timedOut"

\* C9: the readiness wait always hands over to style injection, without an
\* exception, also when it timed out; and an invocation whose wait timed out
\* goes on to store its buffer, unless a later call of it throws or the
\* process exits.
C9_SoftTimeoutProceeds ==
    /\ [][\A i \in Tasks :
            (tState[i] = "ProbingReadiness" /\ tState'[i] # "ProbingReadiness") =>
                (tState'[i] = "Normalizing" /\ ~threw'[i] /\ ~fatal'[i])]_vars
    /\ \A i \in SlideNums :
         (SoftTimedOut(i) /\ tState[i] = "Normalizing")
             ~> (BufferOf(i) # NoBuffer \/ fatal[i] \/ phase = "exited")

\* an invocation whose readiness wait timed out has stored its buffer
C9_Witness ==
    \E i \in Tasks :
        /\ SoftTimedOut(i)
        /\ tState[i] = "Releasing"
        /\ ~threw[i]
        /\ pdfBuffers[i] # NoBuffer

\* the promise of some invocation is rejected
AnyRejected == \E i \in Tasks : tState[i] = "Failed"

\* C10: once the promise of an invocation is rejected, processWithConcurrency
\* never fulfils and it rejects.
C10_RejectionPropagates ==
    /\ [](AnyRejected => pwc # "fulfilled")
    /\ AnyRejected ~> (pwc = "rejected" /\ exitCode = 1)

\* processWithConcurrency rejected with an invocation in flight and an item
\* never started
C10_Witness ==
    /\ pwc = "rejected"
    /\ AnyRejected
    /\ InFlight # {}
    /\ nextItem <= N

C12_HandedOutBlank ==
    /\ \A k \in 1..Len(available) : pageDoc[available[k]] = Blank
    /\ \A i \in Tasks : tState[i] = "Navigating" => pageDoc[page[i]] = Blank
    /\ \A i \in Tasks : BufferOf(i) # NoBuffer => pdfBuffers[i] = slideFiles[i]

\* the only page of a pool, on which a slide was captured before, is handed
\* out blank to another invocation
C12_Witness ==
    /\ size = 1
    /\ newPageCalls = createdCount
    /\ \E i, j \in Tasks :
         /\ tState[j] = "Done"
         /\ BufferOf(j) # NoBuffer
         /\ tState[i] = "Navigating"
         /\ page[i] \in Range(pages)
         /\ pageDoc[page[i]] = Blank

\* C13: acquire returns only a page that exists and that no invocation holds,
\* taken from a non-empty `available`; and every invocation waiting in acquire
\* gets a page in the end, unless the process exits first.
C13_AcquireReturns ==
    /\ [][\A i \in Tasks :
            (tState[i] = "Acquiring" /\ tState'[i] # "Acquiring") =>
                /\ available # <<>>
                /\ page'[i] = Last(available)
                /\ page'[i] \in 1..newPageCalls
                /\ page'[i] \in openPages
                /\ \A j \in Tasks : page[j] # page'[i]]_vars
    /\ \A i \in SlideNums :
         (i \in Tasks /\ tState[i] = "Acquiring")
             ~> ((i \in Tasks /\ page[i] # NoPage) \/ phase = "exited")

\* in a pool of one page with three invocations started at once, one has
\* finished, one got the page after waiting for it and one still waits
C13_Witness ==
    /\ size = 1
    /\ limit >= 3
    /\ \E i, j, k \in Tasks :
         /\ tState[j] = "Done"
         /\ tState[i] = "Navigating"
         /\ page[i] # NoPage
         /\ tState[k] = "Acquiring"

\* C14 as stated: on a pool initialised with init(true), at most `size` pages
\* are held at once and an invocation waiting in acquire gets a page.
C14_LazyAcquireReturns ==
    /\ [](lazyLoad => CheckedOut <= size)
    /\ \A i \in SlideNums :
         (lazyLoad /\ i \in Tasks /\ tState[i] = "Acquiring")
             ~> ((i \in Tasks /\ page[i] # NoPage) \/ phase = "exited")

\* C15 as stated: once destroy() has completed, every page the pool created,
\* replacements included, is closed.
C15_DestroyClosesAll == phase = "close" => openPages = {}

\* C16 as stated: the process does not exit with status 0, as it does on an
\* interrupt and at the end of a run, before the pool is destroyed, the
\* browser closed and every page given back.
C16_TeardownBeforeExit ==
    (phase = "exited" /\ exitCode = 0) =>
        /\ ~browserOpen
        /\ ~initialized
        /\ openPages = {}
        /\ \A i \in Tasks : page[i] = NoPage

\* the merge was started and ended with an error
MergeFailed == phase = "exited" /\ exitCode = 1 /\ pwc = "fulfilled"

\* C17: a run whose merge failed on a buffer has written nothing, and a file
\* that is written holds a page for every slide, never fewer.
C17_NoPartialOutput ==
    /\ MergeFailed => (~written /\ output = <<>>)
    /\ written => Len(output) = N

\* the merge failed after it had copied some pages, and nothing was written
C17_Witness ==
    /\ MergeFailed
    /\ Len(merged) >= 1
    /\ Len(merged) < N
    /\ ~written

\* C18: while no invocation has failed and items are left, the loop waits
\* only when `limit` invocations are in flight; the completion of any one of
\* them makes the loop ready at once, and the loop then starts the next item
\* while every other invocation stays where it is.
C18_SlidingWindow ==
    /\ []((phase = "render" /\ ~AnyRejected /\ nextItem <= N) =>
            /\ pwc = "race"
            /\ raceState = "fulfilled" \/ Cardinality(InFlight) = limit)
    /\ [][\A i \in Tasks :
            (tState[i] # "Done" /\ tState'[i] = "Done" /\ ~AnyRejected
                /\ nextItem <= N) => raceState' = "fulfilled"]_vars
    /\ [][(pwc = "race" /\ raceState = "fulfilled" /\ ~AnyRejected
                /\ nextItem' # nextItem) =>
            /\ tState[nextItem] = "Queued"
            /\ tState'[nextItem] = "Acquiring"
            /\ \A j \in Tasks : j < nextItem => tState'[j] = tState[j]]_vars

\* an item beyond the first `limit` was started while an invocation started
\* before it is still in flight
C18_Witness ==
    /\ limit >= 2
    /\ ~AnyRejected
    /\ \E i, j \in Tasks :
         /\ i < j
         /\ j > limit
         /\ i \in InFlight
         /\ j \in InFlight

\* C19 as stated: in the run of 5 slides on a pool of 2 pages with the limit
\* 2, every execution that completes its render tasks has made exactly 3
\* dispatch rounds, and the file written holds the pages 1, 2, 3, 4, 5.
C19_ExactlyThreeBatches ==
    /\ pwc = "fulfilled" => dispatches = 3
    /\ written => output = <<1, 2, 3, 4, 5>>

\* C19 amended: every such execution has made 3 or 4 dispatch rounds, never
\* one that started more than 2 items, and the file written holds the pages
\* 1, 2, 3, 4, 5.
C19_ThreeOrFourRounds ==
    /\ pwc = "fulfilled" => dispatches \in {3, 4}
    /\ Cardinality(InFlight) <= ScenarioLimit
    /\ written => output = <<1, 2, 3, 4, 5>>

\* the file is written after 4 dispatch rounds, slide 5 not being the last
\* one captured
C19_Witness ==
    /\ written
    /\ dispatches = 4
    /\ progressSlide # ScenarioSlides
    /\ output = <<1, 2, 3, 4, 5>>


(***************************************************************************)
(* The scan of the slides directory on file names                          *)
(* (generatePDFFromSlides, lines 40-46).  A file name is a record          *)
(* stem + digits + ext; digits is the sequence of decimal digits between   *)
(* the stem and the extension, possibly empty.                             *)
(***************************************************************************)
MaxListing == 3

Slide(ds) == [stem |-> "slide_", digits |-> ds, ext |-> ".html"]

\* Names a directory may hold: slides 9, 10, 2 and 07, and three names the
\* pattern refuses (other extension, other stem, no digit).
FileNames ==
    { Slide(<<9>>), Slide(<<1, 0>>), Slide(<<2>>), Slide(<<0, 7>>),
      [stem |-> "slide_", digits |-> <<3>>, ext |-> ".htm"],
      [stem |-> "notes_", digits |-> <<1>>, ext |-> ".html"],
      Slide(<<>>) }

\* readdirSync: distinct names, in any order.
Listings ==
    { ls \in UNION { [1..n -> FileNames] : n \in 0..MaxListing } :
        \A j, k \in 1..Len(ls) : j # k => ls[j] # ls[k] }

\* file.match(/^slide_\d+\.html$/)
Matches(file) ==
    /\ file.stem = "slide_"
    /\ Len(file.digits) >= 1
    /\ file.ext = ".html"

\* parseInt of a string of decimal digits
RECURSIVE ParseInt(_)
ParseInt(ds) ==
    IF ds = <<>> THEN 0 ELSE 10 * ParseInt(Front(ds)) + Last(ds)

\* String order of two names "slide_" + digits + ".html", as the default
\* sort would compare them: '.' sorts before every digit.
RECURSIVE LexLess(_, _)
LexLess(da, db) ==
    IF da = <<>> THEN db # <<>>
    ELSE IF db = <<>> THEN FALSE
    ELSE IF Head(da) = Head(db) THEN LexLess(Tail(da), Tail(db))
    ELSE Head(da) < Head(db)

CompareLexical(a, b) ==
    IF LexLess(a.digits, b.digits) THEN -1
    ELSE IF LexLess(b.digits, a.digits) THEN 1 ELSE 0

\* The comparator of lines 42-46: numA - numB.
Compare(a, b) == ParseInt(a.digits) - ParseInt(b.digits)

\* Array.prototype.sort is stable: a name goes before the first name it
\* compares below, hence after every name it ties with.
InsertSorted(s, file) ==
    LET below == {k \in 1..Len(s) : Compare(file, s[k]) < 0}
        at == IF below = {} THEN Len(s) + 1
              ELSE CHOOSE k \in below : \A m \in below : k <= m
    IN SubSeq(s, 1, at - 1) \o <<file>> \o SubSeq(s, at, Len(s))

RECURSIVE SortFiles(_)
SortFiles(s) ==
    IF s = <<>> THEN <<>> ELSE InsertSorted(SortFiles(Front(s)), Last(s))

SlideFilesOf(ls) == SortFiles(SelectSeq(ls, Matches))

\* The slide numbers of a listing: what dir holds for it.
NumsOf(ls) == {ParseInt(ls[k].digits) : k \in {j \in 1..Len(ls) : Matches(ls[j])}}

\* lines 40-51 on the names: filter, sort, exit(1) on an empty result
ScanNames ==
    /\ phase = "scan"
    /\ Handler(isDirectory) = "directory"
    /\ sortedNames' = SlideFilesOf(listing)
    /\ slideFiles' = SortByNum(dir)
    /\ IF NoSlides(sortedNames')
       THEN Exit(ExitStatus(TRUE))
       ELSE phase' = "launch" /\ UNCHANGED exitCode
    /\ UNCHANGED <<dir, pdfBuffers, completed, progressSlide, merged, mergeIdx, output,
                   written, browserOpen>>
    /\ UNCHANGED <<poolVars, schedVars, taskVars, lazyLoad, isDirectory, listing,
                   dispatches, content, probe, pageIndex, calls>>

SortInit ==
    \E ls \in Listings :
        /\ listing = ls
        /\ Start(NumsOf(ls), SlideNums, 1, 1, FALSE)
        /\ isDirectory = TRUE
        /\ content = NoContent /\ probe = NoProbe

SortNext == ScanNames

SortSpec == SortInit /\ [][SortNext]_vars

\* C20: after the scan, the documents are exactly the listed files named
\* slide_<digits>.html, each once, in ascending order of the numeric value of
\* their digits (so slide_9.html stands before slide_10.html), a document's
\* index being its position in that sequence.
C20_NumericOrder ==
    phase # "scan" =>
        /\ Range(sortedNames) =
              {f \in Range(listing) :
                  f.stem = "slide_" /\ f.digits # <<>> /\ f.ext = ".html"}
        /\ \A j, k \in 1..Len(sortedNames) :
              /\ j < k =>
                    ParseInt(sortedNames[j].digits) <= ParseInt(sortedNames[k].digits)
              /\ j # k => sortedNames[j] # sortedNames[k]
        /\ \A j, k \in 1..Len(sortedNames) :
              (sortedNames[j] = Slide(<<9>>) /\ sortedNames[k] = Slide(<<1, 0>>))
                  => j < k
        /\ slideFiles = [k \in 1..Len(sortedNames) |-> ParseInt(sortedNames[k].digits)]

\* A directory that lists slide_10.html before slide_9.html together with a
\* file the pattern refuses has been scanned.
C20_Witness ==
    /\ phase = "launch"
    /\ \E j, k \in 1..Len(listing) :
          j < k /\ listing[j] = Slide(<<1, 0>>) /\ listing[k] = Slide(<<9>>)
    /\ \E k \in 1..Len(listing) : listing[k].ext = ".htm"
    /\ Len(sortedNames) = 2
    /\ sortedNames[1] = Slide(<<9>>)


\* C21: a run on a directory without any slide file exits with status 1 in
\* its first step, before the browser is launched, the pool initialised, a
\* page created or the scheduler called, and without writing; nothing runs
\* after the exit.
C21_EmptyDirFailsAtOnce ==
    /\ [](dir = {} =>
            /\ phase \in {"scan", "exited"}
            /\ phase = "exited" => exitCode = 1
            /\ ~browserOpen
            /\ ~initialized
            /\ newPageCalls = 0
            /\ openPages = {}
            /\ pwc = "idle"
            /\ ~written
            /\ output = <<>>)
    /\ [][(dir = {} /\ phase = "scan") => (phase' = "exited" /\ exitCode' = 1)]_vars
    /\ [][phase # "exited"]_vars

\* the run on an empty directory has exited
C21_Witness ==
    /\ dir = {}
    /\ slideFiles = <<>>
    /\ phase = "exited"
    /\ exitCode = 1


\* C22: a run that found no slide, had a task-fatal error or failed in the
\* merge ends with the exit status 1, which the process takes right after
\* printing the error; the status 0 is that of a run that wrote the whole
\* document.
C22_FailureExitsNonZero ==
    /\ [](exitCode = 0 =>
            /\ written
            /\ N >= 1
            /\ Len(output) = N
            /\ \A i \in Tasks : ~fatal[i] /\ tState[i] = "Done")
    /\ [][(phase = "merge" /\ phase' = "exited") => exitCode' = 1]_vars
    /\ (dir = {}) ~> (phase = "exited" /\ exitCode = 1)
    /\ (\E i \in Tasks : fatal[i]) ~> (phase = "exited" /\ exitCode = 1)

\* the capture of the last invocation in flight threw after every other slide
\* was captured, and the process exited with status 1
C22_Witness ==
    /\ phase = "exited"
    /\ exitCode = 1
    /\ N >= 2
    /\ completed = N - 1
    /\ \E i \in Tasks :
         /\ fatal[i]
         /\ \A j \in Tasks \ {i} : tState[j] = "Done"


\* C23: a run on a single file never initialises the pool, hands out or takes
\* back a page of it, or calls the scheduler; the only page is the one that
\* browser.newPage() gives, and the run that succeeds writes once, one page:
\* the capture of the file given.
C23_SingleFileBypassesPool ==
    /\ [](~isDirectory =>
            /\ ~initialized
            /\ pages = <<>>
            /\ available = <<>>
            /\ createdCount = 0
            /\ pwc = "idle"
            /\ executing = <<>>
            /\ dispatches = 0
            /\ \A i \in SlideNums : tState[i] = "Queued" /\ page[i] = NoPage
            /\ newPageCalls <= 1
            /\ written => output = <<SingleDoc>>
            /\ exitCode = 0 => written)
    /\ [][(~isDirectory /\ output' # output) =>
            (~written /\ phase = "singlePdf" /\ Len(output') = 1)]_vars

\* the single file was captured and written, and the browser is closed
C23_Witness ==
    /\ ~isDirectory
    /\ phase = "exited"
    /\ exitCode = 0
    /\ written
    /\ Len(output) = 1
    /\ ~browserOpen


\* the state of a document's render task in the terms of the state machine
\* Queued, Navigating, ProbingReadiness, Normalizing, Capturing, Done, Failed:
\* an invocation waiting in acquire is still Queued, and one in its finally
\* block has its outcome already: Failed when its try block threw, Done
\* otherwise
Stage(ts, th) ==
    CASE ts \in {"Queued", "Acquiring"} -> "Queued"
      [] ts \in {"Releasing", "Replacing"} -> (IF th THEN "Failed" ELSE "Done")
      [] OTHER -> ts

StageRank(st) ==
    CASE st = "Queued" -> 0
      [] st = "Navigating" -> 1
      [] st = "ProbingReadiness" -> 2
      [] st = "Normalizing" -> 3
      [] st = "Capturing" -> 4
      [] st = "Done" -> 5
      [] st = "Failed" -> 6

\* C24: every change of state of a render task is a move to the next state of
\* Queued, Navigating, ProbingReadiness, Normalizing, Capturing, Done, or a
\* move to Failed; Done and Failed are final; a task enters Navigating
\* holding a page, and is Done only with its capture stored.
C24_StateOrder ==
    /\ [][\A i \in Tasks :
            LET old == Stage(tState[i], threw[i])
                new == Stage(tState'[i], threw'[i])
            IN new # old =>
                 /\ old \notin {"Done", "Failed"}
                 /\ new = "Failed" \/ StageRank(new) = StageRank(old) + 1
                 /\ new = "Navigating" => page'[i] # NoPage]_vars
    /\ [](\A i \in Tasks :
            Stage(tState[i], threw[i]) = "Done" => BufferOf(i) # NoBuffer)

\* one task went through every state to Done, one Failed, and one is still
\* Queued
C24_Witness ==
    \E i, j, k \in Tasks :
        /\ tState[i] = "Done"
        /\ BufferOf(i) # NoBuffer
        /\ tState[j] = "Failed"
        /\ tState[k] = "Queued"


\* a reference with a scheme: an absolute reference or a data: payload
HasScheme(url) == url[1] \in {"data:", "https:", "file:", "ftp:"}

\* C25 as stated: after the rewriting, every reference of the file that has
\* no scheme is the file:// reference of its path resolved against the file's
\* directory, and every reference with a scheme (absolute, or a data: payload)
\* is as it was.
C25_RelativeRewrittenOthersKept ==
    content.fixed =>
        \A k \in 1..Len(content.file) :
            content.text[k] =
                IF HasScheme(content.file[k]) THEN content.file[k]
                ELSE <<"file://">> \o PathResolve(content.baseDir, content.file[k])


\* C26: the value of the readiness predicate is TRUE exactly when readyState
\* is complete, every image is complete, the fonts are not loading, and the
\* slide container or, without one, the body exists.
C26_ReadyExactlyWhen ==
    probe.evaluated =>
        (probe.result <=>
            /\ probe.doc.readyState = "complete"
            /\ \A k \in 1..Len(probe.doc.images) : probe.doc.images[k]
            /\ probe.doc.fonts # "loading"
            /\ probe.doc.slide \/ probe.doc.body)

\* the predicate is true of a complete document without slide container,
\* with two loaded images and no fonts API
C26_Witness ==
    /\ probe.evaluated
    /\ probe.result
    /\ ~probe.doc.slide
    /\ probe.doc.body
    /\ probe.doc.fonts = "absent"
    /\ Len(probe.doc.images) = 2


\* C27 as stated: in the round-robin pipeline no more tasks are in flight
\* than there are pages, and no two tasks in flight use the same page.
C27_NoSharedPage ==
    /\ Cardinality(InFlight) <= Len(pages)
    /\ \A i, j \in InFlight : i # j => page[i] # page[j]


\* C28 as stated: once the promise of an invocation is rejected,
\* processWithConcurrency starts no further item: every item still queued
\* stays queued.
C28_NoStartAfterFailure ==
    [][AnyRejected =>
          /\ nextItem' = nextItem
          /\ \A i \in Tasks : tState[i] = "Queued" => tState'[i] = "Queued"]_vars


\* C29 as stated: when the process of a directory run has ended, on whatever
\* path, the pool was destroyed and the browser closed.
C29_TeardownOnEveryExit ==
    phase = "exited" =>
        /\ ~browserOpen
        /\ ~initialized
        /\ pages = <<>>


\* C30: a directory run whose concurrency limit does not exceed the capacity
\* of the pool ends, for every number of slides: some step is possible until
\* the process has exited, the process does exit, and it exits either with
\* status 0 after writing the whole document or with the status 1 of an
\* error; an invocation that calls acquire finds a page without waiting.
C30_RunTerminates ==
    /\ [](limit <= size /\ phase # "exited" => ENABLED <<Next>>_vars)
    /\ (limit <= size) ~> (phase = "exited")
    /\ [](limit <= size /\ phase = "exited" =>
            \/ exitCode = 0 /\ written /\ Len(output) = N
            \/ exitCode = 1 /\ ~written)
    /\ [](limit <= size =>
            \A i \in Tasks : tState[i] = "Acquiring" => ~MustPoll(available))

\* three slides went through a pool of two pages under the limit 2, the third
\* on a page given back by an earlier one, and the run has ended with the
\* document written
C30_Witness ==
    /\ limit = 2
    /\ size = 2
    /\ N = 3
    /\ phase = "exited"
    /\ exitCode = 0
    /\ written
    /\ \A i \in Tasks : tState[i] = "Done"
    /\ newPageCalls = 2


\* --------------- the inlining of stylesheets (slideagent_mcp/utils/pdf_generator.js)
\* A slide is read as its <link> tags, each a sequence of tokens, and whether
\* it has a </head>.  The files theme.css and base.css exist next to the
\* slide, gone.css does not.
MaxLinks == 2

RelToken == "rel=\"stylesheet\""

LinkTags ==
    { <<"<link", " ", RelToken, " ", "href=\"", "theme.css", "\"", ">">>,
      <<"<link", " ", RelToken, " ", "href=\"", "gone.css", "\"", ">">>,
      <<"<link", " ", RelToken, " ", "href=\"", "base.css", "\"", " ", "media=\"all\"", ">">>,
      <<"<link", " ", RelToken, " ", "type=\"text/css\"", " ", "href=\"", "theme.css", "\"", ">">>,
      <<"<link", " ", RelToken, " ", "href='", "theme.css", "'", ">">>,
      <<"<link", "  ", RelToken, " ", "href=\"", "theme.css", "\"", ">">>,
      <<"<link", " ", "href=\"", "theme.css", "\"", " ", RelToken, ">">> }

\* fs.existsSync(cssPath), line 238
ExistingCss == {"theme.css", "base.css"}

\* what \s+ matches between two attributes
Whitespace == {" ", "  ", "\n"}

\* line 226, /<link\s+rel="stylesheet"\s+href="([^"]+)"/g on one tag: the
\* captured href, when rel comes first and href right after it in double
\* quotes
ExtractedHref(tag) ==
    IF /\ Len(tag) >= 7
       /\ tag[1] = "<link"
       /\ tag[2] \in Whitespace
       /\ tag[3] = RelToken
       /\ tag[4] \in Whitespace
       /\ tag[5] = "href=\""
       /\ tag[7] = "\""
    THEN <<tag[6]>>
    ELSE <<>>

RECURSIVE CssLinks(_)
\* lines 227-231: the while loop of cssLinkRegex.exec pushes every capture
CssLinks(tags) ==
    IF tags = <<>> THEN <<>>
    ELSE ExtractedHref(Head(tags)) \o CssLinks(Tail(tags))

\* lines 234-258: combinedCSS receives the content of every file of cssLinks
\* that exists; for the others a warning is printed
CombinedCSS(cssLinks) == SelectSeq(cssLinks, LAMBDA h : h \in ExistingCss)

\* line 261, /<link rel="stylesheet"[^>]*>/g on one tag: `<link`, one space,
\* rel="stylesheet", then anything up to the closing >
RemovedByRegex(tag) ==
    /\ Len(tag) >= 4
    /\ tag[1] = "<link"
    /\ tag[2] = " "
    /\ tag[3] = RelToken
    /\ tag[Len(tag)] = ">"

\* lines 264-274: htmlContent.replace('</head>', cssInjection) puts the style
\* block before the first </head>; without one the text is unchanged
StyleBlock(headClosed, css) ==
    IF headClosed THEN css \o <<"COMMON_CSS">> ELSE <<>>

\* lines 222-274, which run without an await: the links are extracted, the
\* files read, the link tags removed and the style block injected
InlineStylesheets ==
    /\ content.kind = "slide"
    /\ ~content.fixed
    /\ LET cssLinks == CssLinks(content.file) IN
         content' = [content EXCEPT
                       !.text = SelectSeq(content.file, LAMBDA t : ~RemovedByRegex(t)),
                       !.style = StyleBlock(content.headClosed, CombinedCSS(cssLinks)),
                       !.fixed = TRUE]
    /\ UNCHANGED <<mainVars, poolVars, schedVars, taskVars, lazyLoad, isDirectory,
                   listing, sortedNames, dispatches, probe, pageIndex, calls>>

\* a slide as read by fs.readFileSync(slidePath) (line 223)
Slides ==
    { [kind |-> "slide", baseDir |-> <<"deck">>, file |-> f, text |-> f,
       fixed |-> FALSE, headClosed |-> h, style |-> <<>>] :
        h \in BOOLEAN, f \in UNION { [1..n -> LinkTags] : n \in 0..MaxLinks } }

InlineInit ==
    /\ Start({}, SlideNums, 1, 1, FALSE)
    /\ listing = <<>>
    /\ isDirectory = TRUE
    /\ content \in Slides
    /\ probe = NoProbe

InlineNext == InlineStylesheets

InlineSpec == InlineInit /\ [][InlineNext]_vars

\* ------------------------------- concurrent calls on a fresh PagePool
\* Callers of one pool that was constructed and not initialised: each calls
\* init() or acquire() once, init() with its default argument (lazyLoad =
\* false), and their continuations interleave at every await.
MaxCallers == 3

Callers == 1..MaxCallers

\* an init() that does not look at the flag
InitGuardNever(flag) == FALSE

\* PagePool.init line 72 (slideagent_mcp/utils/pdf_generator.js line 58):
\* if (this.initialized) return
InitGuard(flag) == flag

\* where a call stands once init() has returned to it: init() is what the
\* caller awaited, or acquire goes on to its polling loop (line 92)
AfterInit(op) == IF op = "init" THEN "returned" ELSE "polling"

\* the call starts and runs to its first await.  init lines 72-78: the flag is
\* tested and set in the same continuation, then the loop calls
\* browser.newPage().  acquire line 89 calls init() only when the flag is not
\* set.
ConcCall(c) ==
    /\ calls[c].pc = "start"
    /\ IF calls[c].op = "acquire" /\ initialized
       THEN /\ calls' = [calls EXCEPT ![c].pc = "polling"]
            /\ UNCHANGED initialized
       ELSE IF InitGuard(initialized)
            THEN /\ calls' = [calls EXCEPT ![c].pc = AfterInit(calls[c].op)]
                 /\ UNCHANGED initialized
            ELSE /\ initialized' = TRUE
                 /\ calls' = [calls EXCEPT ![c].pc = "creating", ![c].i = 0]
    /\ UNCHANGED <<size, pages, available, createdCount, newPageCalls, pageDoc,
                   pageProbe, openPages>>
    /\ UNCHANGED <<mainVars, schedVars, taskVars, dispatches, lazyLoad, isDirectory,
                   listing, sortedNames, content, probe, pageIndex>>

\* init lines 77-83: one turn of the loop of this call: the page is created,
\* pushed on `pages` and `available`; after the last turn init() returns
ConcCreate(c) ==
    /\ calls[c].pc = "creating"
    /\ LET p == newPageCalls + 1
           j == calls[c].i + 1
       IN /\ newPageCalls' = p
          /\ openPages' = openPages \cup {p}
          /\ pages' = Append(pages, p)
          /\ available' = Append(available, p)
          /\ createdCount' = createdCount + 1
          /\ calls' = [calls EXCEPT ![c].i = j,
                                    ![c].pc = IF j < size THEN "creating"
                                              ELSE AfterInit(calls[c].op)]
    /\ UNCHANGED <<size, initialized, pageDoc, pageProbe>>
    /\ UNCHANGED <<mainVars, schedVars, taskVars, dispatches, lazyLoad, isDirectory,
                   listing, sortedNames, content, probe, pageIndex>>

\* acquire lines 92-96: a turn of the polling loop that finds a page pops it
\* and acquire returns it
ConcTake(c) ==
    /\ calls[c].pc = "polling"
    /\ ~MustPoll(available)
    /\ calls' = [calls EXCEPT ![c].pc = "holding", ![c].got = Popped(available)]
    /\ available' = AfterPop(available)
    /\ UNCHANGED <<size, pages, initialized, createdCount, newPageCalls, pageDoc,
                   pageProbe, openPages>>
    /\ UNCHANGED <<mainVars, schedVars, taskVars, dispatches, lazyLoad, isDirectory,
                   listing, sortedNames, content, probe, pageIndex>>

\* new PagePool(browser, s) on a launched browser (constructor lines 62-69),
\* and the calls about to be made on it
ConcInit ==
    \E s \in 1..MaxPoolSize, ops \in [Callers -> {"init", "acquire"}] :
        /\ calls = [c \in Callers |->
                      [op |-> ops[c], pc |-> "start", i |-> 0, got |-> NoPage]]
        /\ size = s
        /\ pages = <<>>
        /\ available = <<>>
        /\ initialized = FALSE
        /\ createdCount = 0
        /\ newPageCalls = 0
        /\ pageDoc = [p \in PageIds \cup (1..s) |-> Blank]
        /\ pageProbe = [p \in PageIds \cup (1..s) |-> "none"]
        /\ openPages = {}
        /\ browserOpen = TRUE
        /\ dir = {}
        /\ slideFiles = <<>>
        /\ phase = "pool"
        /\ pdfBuffers = <<>>
        /\ completed = 0
        /\ progressSlide = 0
        /\ merged = <<>>
        /\ mergeIdx = 1
        /\ output = <<>>
        /\ written = FALSE
        /\ exitCode = NoExit
        /\ limit = 1
        /\ nextItem = 1
        /\ executing = <<>>
        /\ pwc = "idle"
        /\ raceState = "none"
        /\ tState = [k \in SlideNums |-> "Queued"]
        /\ page = [k \in SlideNums |-> NoPage]
        /\ threw = [k \in SlideNums |-> FALSE]
        /\ fatal = [k \in SlideNums |-> FALSE]
        /\ lazyLoad = FALSE
        /\ isDirectory = TRUE
        /\ dispatches = 0
        /\ listing = <<>>
        /\ sortedNames = <<>>
        /\ content = NoContent
        /\ probe = NoProbe
        /\ pageIndex = 0

ConcNext ==
    \/ \E c \in Callers : ConcCall(c)
    \/ \E c \in Callers : ConcCreate(c)
    \/ \E c \in Callers : ConcTake(c)

ConcSpec == ConcInit /\ [][ConcNext]_vars

\* ------------------------------------------- the sequential pipeline
RECURSIVE SequentialBuffers(_, _, _)
\* part_003 lines 57-120 when every call succeeds: for each slide file in
\* turn a new page is opened, page.goto loads the file, page.pdf captures
\* what the page shows, the buffer is pushed on pdfBuffers and the page is
\* closed; the merge loop of line 126 is given the array
SequentialBuffers(files, i, bufs) ==
    IF i > Len(files) THEN bufs
    ELSE LET shown == files[i]
             pdfBuffer == shown
         IN SequentialBuffers(files, i + 1, Append(bufs, pdfBuffer))

\* C31: with the limit equal to the capacity of the eagerly initialised pool,
\* `available` holds a page for every invocation that is in acquire, so the
\* polling loop of acquire is never entered.
C31_AcquireNeverWaits ==
    limit = size =>
        /\ \A i \in Tasks : tState[i] = "Acquiring" => ~MustPoll(available)
        /\ Cardinality({i \in Tasks : tState[i] = "Acquiring"}) <= Len(available)

\* under the limit 2 on a pool of 2 pages the third slide is in acquire after
\* the first gave its page back, while the second still holds the other page
C31_Witness ==
    /\ limit = 2
    /\ size = 2
    /\ N = 3
    /\ tState[3] = "Acquiring"
    /\ tState[1] = "Done"
    /\ page[2] # NoPage
    /\ Len(available) = 1


\* C32: however the init() and acquire() calls made on a pool that is not
\* initialised interleave, one of them alone runs the creation loop, at most
\* `size` pages are ever created, and once a call was made and no creation
\* loop is running the pool has created exactly `size` pages.
C32_InitializedOnce ==
    /\ newPageCalls <= size
    /\ createdCount = newPageCalls
    /\ Len(pages) = newPageCalls
    /\ Cardinality({c \in DOMAIN calls : calls[c].pc = "creating"}) <= 1
    /\ ((\E c \in DOMAIN calls : calls[c].pc # "start")
          /\ (\A c \in DOMAIN calls : calls[c].pc # "creating"))
        => (newPageCalls = size /\ Cardinality(openPages) = size)

\* three calls on a pool of two pages: while the creation loop of the first
\* call has made one page, a second init() has returned at once and an
\* acquire() has taken that page
C32_Witness ==
    /\ size = 2
    /\ calls # <<>>
    /\ \E a, b, c \in DOMAIN calls :
         /\ calls[a].pc = "creating" /\ calls[a].i = 1
         /\ calls[b].op = "init" /\ calls[b].pc = "returned"
         /\ calls[c].op = "acquire" /\ calls[c].pc = "holding"
    /\ newPageCalls = 1


C34_OncePerItemInPlace ==
    /\ [](\A i \in Tasks : (i < nextItem) <=> (tState[i] # "Queued"))
    /\ [][\A i \in Tasks :
            /\ tState[i] # "Queued" => tState'[i] # "Queued"
            /\ (tState'[i] = "Acquiring" /\ tState[i] # "Acquiring")
                 => (tState[i] = "Queued" /\ nextItem <= i /\ i < nextItem')]_vars
    /\ [](pwc = "fulfilled" =>
            /\ nextItem = N + 1
            /\ completed = N
            /\ \A i \in Tasks :
                 /\ tState[i] = "Done"
                 /\ ~threw[i]
                 /\ BufferOf(i) = slideFiles[i])

\* processWithConcurrency has fulfilled for three items under the limit 2,
\* the invocation of the second item having finished last
C34_Witness ==
    /\ pwc = "fulfilled"
    /\ N = 3
    /\ limit = 2
    /\ progressSlide = slideFiles[2]
    /\ \A i \in Tasks : tState[i] = "Done" /\ BufferOf(i) = slideFiles[i]


\* the stylesheet file a link tag refers to: the value of its href attribute
HrefOf(tag) ==
    LET k == CHOOSE j \in 1..Len(tag) : tag[j] \in {"href=\"", "href='"} IN tag[k + 1]

\* C35 as stated: after the inlining, every stylesheet link of the slide that
\* is no longer in the document and whose file exists has its stylesheet in
\* the style block that was injected.
C35_NoStylesheetDropped ==
    (content.kind = "slide" /\ content.fixed) =>
        \A k \in 1..Len(content.file) :
            LET tag == content.file[k] IN
            (tag \notin Range(content.text) /\ HrefOf(tag) \in ExistingCss)
                => HrefOf(tag) \in Range(content.style)


\* C36: generatePDF given a path at which nothing exists goes to the handler
\* of a single file, whose first step ends the process with the status 1 of
\* the not-found error; no browser is launched, no page created and nothing
\* written, before or after.
C36_MissingInputFails ==
    /\ []((~isDirectory /\ dir = {}) =>
            /\ Handler(isDirectory) = "single"
            /\ phase \in {"scan", "exited"}
            /\ exitCode \in {NoExit, 1}
            /\ ~browserOpen
            /\ newPageCalls = 0
            /\ openPages = {}
            /\ ~initialized
            /\ ~written
            /\ output = <<>>)
    /\ [][(~isDirectory /\ dir = {} /\ phase = "scan") =>
            (phase' = "exited" /\ exitCode' = 1)]_vars

\* the run on a missing path has ended with status 1, no browser launched
C36_Witness ==
    /\ ~isDirectory
    /\ dir = {}
    /\ phase = "exited"
    /\ exitCode = 1
    /\ ~browserOpen
    /\ ~written

=============================================================================
